---------------------------- MODULE Spec2Model ----------------------------
(***************************************************************************)
(* Word Chain Generator (subra-cn/word-chain-app).                         *)
(*                                                                         *)
(* A model of the session kept by the page script: the cached dictionary   *)
(* and its loaded flag, the state prepared for the submitted letter        *)
(* groups (classification, AllLetters, candidate pool), the current        *)
(* sequence, the discarded words, and the submit handlers whose            *)
(* dictionary fetch is still in flight.                                    *)
(*                                                                         *)
(* Characters are one-element tokens ("a", "A", "SP", "NL", "CR", "1");    *)
(* a string is a sequence of characters; a word is a string.  JavaScript   *)
(* null is "null" for a letter and the empty option {} for a set (an       *)
(* option is {} or {value}).  Group indices are 0..3 as in the source.     *)
(***************************************************************************)
EXTENDS Integers, Sequences, FiniteSets, TLC

VARIABLES
  providerText,        \* the text the dictionary provider serves (DICT_URL)
  dictionaryLoaded,    \* let dictionaryLoaded
  dictionary,          \* let dictionary
  currentGroups,       \* let currentGroups
  currentCharGroupMap, \* let currentCharGroupMap
  currentCandidates,   \* let currentCandidates
  allLetters,          \* let allLetters
  currentSequence,     \* let currentSequence
  discardedWords,      \* let discardedWords
  output,              \* what the output element shows
  pending,             \* submit handlers suspended in loadDictionary, oldest first
  fetchCount,          \* history: number of fetch(DICT_URL) calls so far
  overlap,             \* history: a fetch was started while another was in flight
  lastSubmit,          \* history: the valid submit issued last, and how it ended
  resetCleared,        \* history: a reset emptied a non-empty discardedWords, no click since
  lastOp,              \* history: the handler that ran last, and what it signalled
  lastBuild            \* history: the last generateSequenceFromState call

vars == <<providerText, dictionaryLoaded, dictionary, currentGroups,
          currentCharGroupMap, currentCandidates, allLetters, currentSequence,
          discardedWords, output, pending, fetchCount, overlap, lastSubmit,
          resetCleared, lastOp, lastBuild>>

(***************************************************************************)
(* Bounds of the model.                                                    *)
(***************************************************************************)
\* provider calls a behaviour may make
MaxFetches == 2
\* submit handlers that may be suspended in loadDictionary at once
MaxPending == 2
\* words in the banned set / the prefix of a directly drawn build call
MaxArgWords == 2
\* letters of a directly drawn dictionary word
MaxWordLen == 3

(***************************************************************************)
(* Characters and strings.                                                 *)
(***************************************************************************)
Range(s) == {s[i] : i \in DOMAIN s}

LowerChars == <<"a", "b", "c", "d", "e", "f", "g", "h", "i", "j", "k", "l", "z">>
UpperChars == <<"A", "B", "C", "D", "E", "F", "G", "H", "I", "J", "K", "L", "Z">>

\* the upper-case form of each lower-case letter
UpperOf == [ch \in Range(LowerChars) |->
              UpperChars[CHOOSE i \in DOMAIN LowerChars : LowerChars[i] = ch]]

\* String.prototype.toUpperCase on one character
UpperChar(ch) == IF ch \in DOMAIN UpperOf THEN UpperOf[ch] ELSE ch

\* String.prototype.toUpperCase
ToUpperCase(s) == [i \in DOMAIN s |-> UpperChar(s[i])]

IsSpace(ch) == ch \in {"SP", "CR", "NL"}

RECURSIVE TrimStart(_)
TrimStart(s) ==
  IF s # <<>> /\ IsSpace(Head(s)) THEN TrimStart(Tail(s)) ELSE s

RECURSIVE TrimEnd(_)
TrimEnd(s) ==
  IF s # <<>> /\ IsSpace(s[Len(s)]) THEN TrimEnd(SubSeq(s, 1, Len(s) - 1)) ELSE s

\* String.prototype.trim
Trim(s) == TrimEnd(TrimStart(s))

\* text.split(/\r?\n/): the pieces between line breaks, the last one included
RECURSIVE SplitFrom(_, _, _, _)
SplitFrom(text, i, cur, lines) ==
  IF i > Len(text) THEN Append(lines, cur)
  ELSE IF text[i] = "NL" THEN SplitFrom(text, i + 1, <<>>, Append(lines, cur))
  ELSE IF text[i] = "CR" /\ i < Len(text) /\ text[i + 1] = "NL"
       THEN SplitFrom(text, i + 2, <<>>, Append(lines, cur))
  ELSE SplitFrom(text, i + 1, Append(cur, text[i]), lines)

SplitLines(text) == SplitFrom(text, 1, <<>>, <<>>)

NonEmpty(w) == Len(w) > 0

\* loadDictionary's split / map(trim) / filter(length > 0)
ParseDictionary(text) ==
  LET lines == SplitLines(text)
      trimmed == [i \in DOMAIN lines |-> Trim(lines[i])]
  IN SelectSeq(trimmed, NonEmpty)

(***************************************************************************)
(* Letter Classifier: buildCharGroupMap.                                   *)
(***************************************************************************)
\* MapGroupChars with a later group overwriting an earlier one
MapGroupChars_LastWins(map, grp, idx, k) ==
  [ch \in DOMAIN map \cup Range(ToUpperCase(grp)) |->
     IF ch \in Range(ToUpperCase(grp)) THEN idx ELSE map[ch]]

\* the inner loop over one group's characters: first group seen wins
RECURSIVE MapGroupChars(_, _, _, _)
MapGroupChars(map, grp, idx, k) ==
  IF k > Len(grp) THEN map
  ELSE LET upper == UpperChar(grp[k])
       IN MapGroupChars(IF upper \in DOMAIN map THEN map ELSE map @@ (upper :> idx),
                        grp, idx, k + 1)

\* groups.forEach((grp, idx) => ...), idx counted from 0
RECURSIVE MapGroupsFrom(_, _, _)
MapGroupsFrom(map, groups, g) ==
  IF g > Len(groups) THEN map
  ELSE MapGroupsFrom(MapGroupChars(map, groups[g], g - 1, 1), groups, g + 1)

buildCharGroupMap(groups) == MapGroupsFrom(<<>>, groups, 1)

(***************************************************************************)
(* Candidate Filter: validateWord, buildCandidateWords, the sort.          *)
(***************************************************************************)
\* AdjacentSameGroup with the loop stopping one pair early
AdjacentSameGroup_StopsEarly(groups) ==
  \E i \in 1..(Len(groups) - 2) : groups[i] = groups[i + 1]

\* for (let i = 0; i < groups.length - 1; i++) if (groups[i] === groups[i + 1])
AdjacentSameGroup(groups) ==
  \E i \in 1..(Len(groups) - 1) : groups[i] = groups[i + 1]

\* validateWord without the test on neighbouring letters
validateWord_NoAdjacencyTest(word, charGroupMap) ==
  LET letters == ToUpperCase(word)
  IN IF \E i \in DOMAIN letters : letters[i] \notin DOMAIN charGroupMap THEN {}
     ELSE {[word |-> letters,
            first |-> letters[1],
            last |-> letters[Len(letters)],
            coverage |-> Range(letters)]}

\* validateWord: the option of the candidate record ({} is null)
validateWord(word, charGroupMap) ==
  LET letters == ToUpperCase(word)
  IN IF \E i \in DOMAIN letters : letters[i] \notin DOMAIN charGroupMap THEN {}
     ELSE LET groups == [i \in DOMAIN letters |-> charGroupMap[letters[i]]]
          IN IF AdjacentSameGroup(groups) THEN {}
             ELSE {[word |-> letters,
                    first |-> letters[1],
                    last |-> letters[Len(letters)],
                    coverage |-> Range(letters)]}

maxLength == 12

RECURSIVE CandidatesFrom(_, _, _, _)
CandidatesFrom(dict, charGroupMap, i, candidates) ==
  IF i > Len(dict) THEN candidates
  ELSE LET w == dict[i]
       IN IF Len(w) = 0 \/ Len(w) > maxLength
          THEN CandidatesFrom(dict, charGroupMap, i + 1, candidates)
          ELSE LET val == validateWord(w, charGroupMap)
               IN CandidatesFrom(dict, charGroupMap, i + 1,
                                 IF val # {} THEN Append(candidates, CHOOSE v \in val : TRUE)
                                 ELSE candidates)

buildCandidateWords(dict, charGroupMap) == CandidatesFrom(dict, charGroupMap, 1, <<>>)

\* CompareCandidates without the word-length tie-break
CompareCandidates_CoverageOnly(a, b) ==
  Cardinality(b.coverage) - Cardinality(a.coverage)

\* the comparator of currentCandidates.sort: negative when a goes before b
CompareCandidates(a, b) ==
  LET aCov == Cardinality(a.coverage)
      bCov == Cardinality(b.coverage)
  IN IF bCov # aCov THEN bCov - aCov ELSE Len(b.word) - Len(a.word)

\* Array.prototype.sort is stable: x goes after every element it does not precede
RECURSIVE InsertSorted(_, _)
InsertSorted(sorted, x) ==
  IF sorted = <<>> THEN <<x>>
  ELSE IF CompareCandidates(x, Head(sorted)) < 0 THEN <<x>> \o sorted
  ELSE <<Head(sorted)>> \o InsertSorted(Tail(sorted), x)

RECURSIVE SortFrom(_, _, _)
SortFrom(list, i, sorted) ==
  IF i > Len(list) THEN sorted
  ELSE SortFrom(list, i + 1, InsertSorted(sorted, list[i]))

SortCandidates(list) == SortFrom(list, 1, <<>>)

\* allLetters of prepareForGroups
GroupLetters(groups) ==
  UNION {{UpperChar(groups[g][k]) : k \in DOMAIN groups[g]} : g \in DOMAIN groups}

\* prepareForGroups: the four globals it assigns
prepareForGroups(groups, dict) ==
  LET map == buildCharGroupMap(groups)
  IN [groups |-> groups,
      charGroupMap |-> map,
      allLetters |-> GroupLetters(groups),
      candidates |-> SortCandidates(buildCandidateWords(dict, map))]

(***************************************************************************)
(* Chain Builder: generateSequenceFromState.                               *)
(***************************************************************************)
\* EffectiveUsed forgetting the words passed in
EffectiveUsed_DiscardedOnly(usedWordsSet, discarded) == discarded

\* EffectiveUsed starting every build from an empty banned set
EffectiveUsed_Nothing(usedWordsSet, discarded) == {}

\* EffectiveUsed starting a fresh generation from no banned word at all
EffectiveUsed_FreshIgnoresDiscarded(usedWordsSet, discarded) ==
  IF usedWordsSet # {}
  THEN (CHOOSE u \in usedWordsSet : TRUE) \cup discarded
  ELSE {}

\* EffectiveUsed forgetting the discarded words when a used set is passed
EffectiveUsed_PassedOnly(usedWordsSet, discarded) ==
  IF usedWordsSet # {} THEN CHOOSE u \in usedWordsSet : TRUE ELSE discarded

\* the set `used` starts from: the words passed in, with the discarded ones
EffectiveUsed(usedWordsSet, discarded) ==
  IF usedWordsSet # {}
  THEN (CHOOSE u \in usedWordsSet : TRUE) \cup discarded
  ELSE discarded

\* Usable without the chain test on the first letter
Usable_NoChainTest(item, used, currentLast) == item.word \notin used

\* the predicate of currentCandidates.filter
Usable(item, used, currentLast) ==
  item.word \notin used /\ (currentLast = "null" \/ item.first = currentLast)

\* item.coverage.forEach((ch) => { if (uncovered.has(ch)) newCoverage++ })
NewCoverage(item, uncovered) == Cardinality(item.coverage \cap uncovered)

\* for (const item of candidateList): the index chosen, 0 for null
RECURSIVE ScanCandidates(_, _, _, _, _)
ScanCandidates(candidateList, uncovered, i, maxCoverage, chosen) ==
  IF i > Len(candidateList) THEN chosen
  ELSE LET newCoverage == NewCoverage(candidateList[i], uncovered)
       IN IF newCoverage > maxCoverage
          THEN ScanCandidates(candidateList, uncovered, i + 1, newCoverage, i)
          ELSE ScanCandidates(candidateList, uncovered, i + 1, maxCoverage, chosen)

\* ChooseCandidate taking the latest of the candidates that add most letters
ChooseCandidate_LatestBest(candidateList, uncovered) ==
  IF candidateList = <<>> THEN 0
  ELSE CHOOSE i \in DOMAIN candidateList :
         \A j \in DOMAIN candidateList :
           \/ NewCoverage(candidateList[j], uncovered) < NewCoverage(candidateList[i], uncovered)
           \/ /\ NewCoverage(candidateList[j], uncovered) = NewCoverage(candidateList[i], uncovered)
              /\ j <= i

\* ChooseCandidate that gives up when no usable candidate adds a letter
ChooseCandidate_NeedsNewLetter(candidateList, uncovered) ==
  ScanCandidates(candidateList, uncovered, 1, 0, 0)

\* ChooseCandidate taking the last usable candidate, whatever it covers
ChooseCandidate_LastUsable(candidateList, uncovered) == Len(candidateList)

\* one pass of the while body: the index chosen in candidateList, 0 for none
ChooseCandidate(candidateList, uncovered) ==
  LET chosen == ScanCandidates(candidateList, uncovered, 1, -1, 0)
  IN IF chosen = 0 /\ Len(candidateList) > 0 THEN 1 ELSE chosen

\* BuildLoop going on while a usable candidate is left, covered or not
RECURSIVE BuildLoop_NoCoverageStop(_, _, _, _, _)
BuildLoop_NoCoverageStop(cands, uncovered, used, result, currentLast) ==
  LET Keep(item) == Usable(item, used, currentLast)
      candidateList == SelectSeq(cands, Keep)
      chosen == ChooseCandidate(candidateList, uncovered)
  IN IF chosen = 0 THEN result
     ELSE LET item == candidateList[chosen]
          IN BuildLoop_NoCoverageStop(cands, uncovered \ item.coverage,
                                      used \cup {item.word},
                                      Append(result, item.word), item.last)

\* while (uncovered.size > 0) { ... }
RECURSIVE BuildLoop(_, _, _, _, _)
BuildLoop(cands, uncovered, used, result, currentLast) ==
  IF Cardinality(uncovered) = 0 THEN result
  ELSE LET Keep(item) == Usable(item, used, currentLast)
           candidateList == SelectSeq(cands, Keep)
           chosen == ChooseCandidate(candidateList, uncovered)
       IN IF chosen = 0 THEN result
          ELSE LET item == candidateList[chosen]
               IN BuildLoop(cands, uncovered \ item.coverage, used \cup {item.word},
                            Append(result, item.word), item.last)

\* generateSequenceFromState over the globals it reads (currentCandidates,
\* allLetters, discardedWords); uncoveredSet and usedWordsSet are options
generateSequenceFromState(cands, letters, discarded, startingLast, uncoveredSet, usedWordsSet) ==
  LET uncovered == IF uncoveredSet # {} THEN CHOOSE u \in uncoveredSet : TRUE ELSE letters
      used == EffectiveUsed(usedWordsSet, discarded)
  IN BuildLoop(cands, uncovered, used, <<>>, startingLast)

\* ArgAfterBuild with the loop working on the set passed instead of a copy
ArgAfterBuild_SharedWithLoop(arg, loopFinal) == IF arg = {} THEN {} ELSE {loopFinal}

\* what a set passed to generateSequenceFromState holds after the call: the
\* loop works on new Set(uncoveredSet) and on a new Set filled from
\* usedWordsSet, so the argument keeps its members
ArgAfterBuild(arg, loopFinal) == arg

\* the record kept of a generateSequenceFromState call: its arguments, the
\* sets it starts from, the discarded words it read, what it returned, and
\* what the sets passed to it hold afterwards
BuildRecord(cands, letters, discarded, startingLast, uncoveredSet, usedWordsSet) ==
  LET uncovered == IF uncoveredSet # {} THEN CHOOSE u \in uncoveredSet : TRUE ELSE letters
      used == EffectiveUsed(usedWordsSet, discarded)
  IN CHOOSE rec \in
       {[called |-> TRUE,
         startLast |-> startingLast,
         uncoveredSet |-> uncoveredSet,
         usedWordsSet |-> usedWordsSet,
         uncovered |-> uncovered,
         discarded |-> discarded,
         used |-> used,
         result |-> r,
         uncoveredSetAfter |->
           ArgAfterBuild(uncoveredSet, uncovered \ UNION {Range(r[k]) : k \in DOMAIN r}),
         usedWordsSetAfter |-> ArgAfterBuild(usedWordsSet, used \cup Range(r))] :
        r \in {generateSequenceFromState(cands, letters, discarded, startingLast,
                                         uncoveredSet, usedWordsSet)}} : TRUE

NoBuild ==
  [called |-> FALSE, startLast |-> "null", uncoveredSet |-> {}, usedWordsSet |-> {},
   uncovered |-> {}, discarded |-> {}, used |-> {}, result |-> <<>>,
   uncoveredSetAfter |-> {}, usedWordsSetAfter |-> {}]

(***************************************************************************)
(* The inputs: what the provider serves and what the form holds.           *)
(***************************************************************************)
\* "flick\nkale\nkeg\nelf\ngal\nlice\nzig\negg\n"
Text1 ==
  <<"f", "l", "i", "c", "k", "NL", "k", "a", "l", "e", "NL", "k", "e", "g",
    "NL", "e", "l", "f", "NL", "g", "a", "l", "NL", "l", "i", "c", "e",
    "NL", "z", "i", "g", "NL", "e", "g", "g", "NL">>

\* "cab\r\nbed\r\n\r\ndig \r\ngal\r\nLice\r\nGAL"
Text2 ==
  <<"c", "a", "b", "CR", "NL", "b", "e", "d", "CR", "NL", "CR", "NL", "d",
    "i", "g", "SP", "CR", "NL", "g", "a", "l", "CR", "NL", "L", "i", "c",
    "e", "CR", "NL", "G", "A", "L">>

\* "adgjbehk\nkc\nkckc\ncfil\nadgjbe\nehkcfil\nla": letter strings that
\* chain through all twelve letters of ABC, DEF, GHI, JKL, and one that
\* chains on after the last of them
Text3 ==
  <<"a", "d", "g", "j", "b", "e", "h", "k", "NL", "k", "c", "NL", "k", "c",
    "k", "c", "NL", "c", "f", "i", "l", "NL", "a", "d", "g", "j", "b", "e",
    "NL", "e", "h", "k", "c", "f", "i", "l", "NL", "l", "a">>

DictTexts == {Text1, Text2, Text3}

\* the four input fields, as typed
InputABC == << <<"a", "b", "c">>, <<"SP", "D", "E", "F">>, <<"G", "H", "I">>, <<"j", "k", "l", "SP">> >>
InputAKC == << <<"A", "K", "C">>, <<"D", "E", "F">>, <<"G", "H", "I">>, <<"J", "K", "L">> >>
InputZZZ == << <<"Z", "Z", "Z">>, <<"z", "z", "z">>, <<"Z", "Z", "Z">>, <<"Z", "Z", "Z">> >>
InputShort == << <<"A", "B">>, <<"D", "E", "F">>, <<"G", "H", "I">>, <<"J", "K", "L">> >>
InputDigit == << <<"A", "B", "C">>, <<"D", "E", "1">>, <<"G", "H", "I">>, <<"J", "K", "L">> >>

GroupInputs == {InputABC, InputAKC, InputZZZ, InputShort, InputDigit}

\* document.getElementById(...).value.trim().toUpperCase(), four times
ReadGroups(input) == [i \in DOMAIN input |-> ToUpperCase(Trim(input[i]))]

\* /^[A-Z]{3}$/
RegexTest(g) == Len(g) = 3 /\ \A i \in DOMAIN g : g[i] \in Range(UpperChars)

ValidGroups(groups) == \A i \in DOMAIN groups : RegexTest(groups[i])

(***************************************************************************)
(* The session: Init and one action per handler or continuation.           *)
(***************************************************************************)
Op(kind, index, signal) == [kind |-> kind, index |-> index, signal |-> signal]

\* no valid submit issued yet
NoSubmit == [groups |-> <<>>, status |-> "none"]

\* lastSubmit once the handler suspended at pending[k] has resumed: the
\* submit issued last, while in flight, is the newest entry of pending
Settled(k, status) ==
  IF lastSubmit.status = "inFlight" /\ k = Len(pending)
  THEN [lastSubmit EXCEPT !.status = status]
  ELSE lastSubmit

RemoveAt(seq, k) == SubSeq(seq, 1, k - 1) \o SubSeq(seq, k + 1, Len(seq))

Init ==
  /\ providerText \in DictTexts
  /\ dictionaryLoaded = FALSE
  /\ dictionary = <<>>
  /\ currentGroups = <<>>
  /\ currentCharGroupMap = <<>>
  /\ currentCandidates = <<>>
  /\ allLetters = {}
  /\ currentSequence = <<>>
  /\ discardedWords = {}
  /\ output = "empty"
  /\ pending = <<>>
  /\ fetchCount = 0
  /\ overlap = FALSE
  /\ lastSubmit = NoSubmit
  /\ resetCleared = FALSE
  /\ lastOp = Op("init", -1, "none")
  /\ lastBuild = NoBuild

\* renderSequence: what the output element shows afterwards
renderSequence(seq) == IF Len(seq) = 0 THEN "noWords" ELSE "sequence"

\* GenerateFresh banning the words of the sequence shown before
GenerateFresh_AvoidsShownWords(groups, dict) ==
  \E prep \in {prepareForGroups(groups, dict)} :
    \E rec \in {BuildRecord(prep.candidates, prep.allLetters,
                            discardedWords \cup Range(currentSequence), "null", {}, {})} :
      /\ currentGroups' = prep.groups
      /\ currentCharGroupMap' = prep.charGroupMap
      /\ allLetters' = prep.allLetters
      /\ currentCandidates' = prep.candidates
      /\ lastBuild' = rec
      /\ currentSequence' = rec.result
      /\ output' = renderSequence(rec.result)
      /\ UNCHANGED discardedWords

\* GenerateFresh forgetting the discarded words of the puzzle before
GenerateFresh_ClearsDiscarded(groups, dict) ==
  \E prep \in {prepareForGroups(groups, dict)} :
    \E rec \in {BuildRecord(prep.candidates, prep.allLetters, {}, "null", {}, {})} :
      /\ currentGroups' = prep.groups
      /\ currentCharGroupMap' = prep.charGroupMap
      /\ allLetters' = prep.allLetters
      /\ currentCandidates' = prep.candidates
      /\ lastBuild' = rec
      /\ currentSequence' = rec.result
      /\ output' = renderSequence(rec.result)
      /\ discardedWords' = {}

\* the submit handler after loadDictionary: prepareForGroups, the fresh
\* generation, renderSequence
GenerateFresh(groups, dict) ==
  \E prep \in {prepareForGroups(groups, dict)} :
    \E rec \in {BuildRecord(prep.candidates, prep.allLetters, discardedWords,
                            "null", {}, {})} :
      /\ currentGroups' = prep.groups
      /\ currentCharGroupMap' = prep.charGroupMap
      /\ allLetters' = prep.allLetters
      /\ currentCandidates' = prep.candidates
      /\ lastBuild' = rec
      /\ currentSequence' = rec.result
      /\ output' = renderSequence(rec.result)
      /\ UNCHANGED discardedWords

\* loadDictionary without its early return
SkipsFetch_Never(loaded) == FALSE

\* loadDictionary: if (dictionaryLoaded) return
SkipsFetch(loaded) == loaded

\* submit with a group that fails the regex: the error is shown, nothing else
SubmitInvalid(input) ==
  /\ ~ValidGroups(ReadGroups(input))
  /\ output' = "invalid"
  /\ lastOp' = Op("submitInvalid", -1, "InvalidInput")
  /\ lastBuild' = NoBuild
  /\ resetCleared' = FALSE
  /\ UNCHANGED <<providerText, dictionaryLoaded, dictionary, currentGroups,
                 currentCharGroupMap, currentCandidates, allLetters, currentSequence,
                 discardedWords, pending, fetchCount, overlap, lastSubmit>>

\* submit with the dictionary cached: loadDictionary returns at once and the
\* handler's continuation runs before any other event
SubmitLoaded(input) ==
  /\ ValidGroups(ReadGroups(input))
  /\ SkipsFetch(dictionaryLoaded)
  /\ GenerateFresh(ReadGroups(input), dictionary)
  /\ lastOp' = Op("submitLoaded", -1,
                  IF currentSequence' = <<>> THEN "NoSolutionFound" ELSE "none")
  /\ lastSubmit' = [groups |-> ReadGroups(input), status |-> "done"]
  /\ resetCleared' = resetCleared
  /\ UNCHANGED <<providerText, dictionaryLoaded, dictionary, pending, fetchCount, overlap>>

\* submit without it: loadDictionary calls fetch and the handler is suspended
SubmitFetch(input) ==
  /\ ValidGroups(ReadGroups(input))
  /\ ~SkipsFetch(dictionaryLoaded)
  /\ Len(pending) < MaxPending
  /\ fetchCount < MaxFetches
  /\ output' = "fetching"
  /\ pending' = Append(pending, [groups |-> ReadGroups(input)])
  /\ fetchCount' = fetchCount + 1
  /\ overlap' = (overlap \/ pending # <<>>)
  /\ lastSubmit' = [groups |-> ReadGroups(input), status |-> "inFlight"]
  /\ resetCleared' = resetCleared
  /\ lastOp' = Op("submitFetch", -1, "none")
  /\ lastBuild' = NoBuild
  /\ UNCHANGED <<providerText, dictionaryLoaded, dictionary, currentGroups,
                 currentCharGroupMap, currentCandidates, allLetters, currentSequence,
                 discardedWords>>

\* fetch rejects, the status is not ok, or response.text() rejects: the catch
\* block shows the error and rethrows, and the submit handler returns
LoadFail(k) ==
  /\ k \in DOMAIN pending
  /\ output' = "loadError"
  /\ pending' = RemoveAt(pending, k)
  /\ lastOp' = Op("loadFail", -1, "DictionaryLoadError")
  /\ lastBuild' = NoBuild
  /\ lastSubmit' = Settled(k, "failed")
  /\ resetCleared' = FALSE
  /\ UNCHANGED <<providerText, dictionaryLoaded, dictionary, currentGroups,
                 currentCharGroupMap, currentCandidates, allLetters, currentSequence,
                 discardedWords, fetchCount, overlap>>

\* await fetch(DICT_URL) and await response.text() resume (nothing is written
\* between the two): the dictionary is stored, the flag set, and the submit
\* handler goes on with its own groups
TextLoaded(k) ==
  /\ k \in DOMAIN pending
  /\ dictionary' = ParseDictionary(providerText)
  /\ dictionaryLoaded' = TRUE
  /\ GenerateFresh(pending[k].groups, dictionary')
  /\ pending' = RemoveAt(pending, k)
  /\ lastOp' = Op("textLoaded", -1,
                  IF currentSequence' = <<>> THEN "NoSolutionFound" ELSE "none")
  /\ lastSubmit' = Settled(k, "done")
  /\ resetCleared' = resetCleared
  /\ UNCHANGED <<providerText, fetchCount, overlap>>

\* resetAll dropping the cached dictionary as well
resetAll_DropsCache ==
  /\ discardedWords' = {}
  /\ currentSequence' = <<>>
  /\ output' = "empty"
  /\ dictionary' = <<>>
  /\ dictionaryLoaded' = FALSE
  /\ lastOp' = Op("reset", -1, "none")
  /\ lastBuild' = NoBuild
  /\ resetCleared' = (discardedWords # {})
  /\ UNCHANGED <<providerText, currentGroups, currentCharGroupMap, currentCandidates,
                 allLetters, pending, fetchCount, overlap, lastSubmit>>

\* resetAll
resetAll ==
  /\ discardedWords' = {}
  /\ currentSequence' = <<>>
  /\ output' = "empty"
  /\ lastOp' = Op("reset", -1, "none")
  /\ lastBuild' = NoBuild
  /\ resetCleared' = (discardedWords # {})
  /\ UNCHANGED <<providerText, dictionaryLoaded, dictionary, currentGroups,
                 currentCharGroupMap, currentCandidates, allLetters, pending,
                 fetchCount, overlap, lastSubmit>>

\* the letters of the words before index (coveredBefore)
CoveredBefore(seq, index) ==
  UNION {{UpperChar(seq[i][k]) : k \in DOMAIN seq[i]} : i \in 1..index}

\* StartingLast forgetting the word before the clicked one
StartingLast_AlwaysNull(seq, index) == "null"

\* startingLast of replaceWord: the last letter of the word before index
StartingLast(seq, index) ==
  IF index > 0 THEN UpperChar(seq[index][Len(seq[index])]) ELSE "null"

\* SpliceSequence keeping the clicked word: slice(0, index + 1)
SpliceSequence_KeepsClicked(seq, index, newSubSequence) ==
  SubSeq(seq, 1, index + 1) \o newSubSequence

\* currentSequence.slice(0, index).concat(newSubSequence)
SpliceSequence(seq, index, newSubSequence) == SubSeq(seq, 1, index) \o newSubSequence

\* SequenceAfterReplace without the test for an empty result
SequenceAfterReplace_NoEmptyTest(seq, index, newSubSequence) ==
  SpliceSequence(seq, index, newSubSequence)

\* what replaceWord leaves in currentSequence: nothing new on an empty result
SequenceAfterReplace(seq, index, newSubSequence) ==
  IF Len(newSubSequence) = 0 THEN seq ELSE SpliceSequence(seq, index, newSubSequence)

\* the word spans that carry a click listener (data-index, from 0)
ClickableIndices ==
  IF output = "sequence" THEN 0..(Len(currentSequence) - 1) ELSE {}

\* replaceWord(index), run by a click on the word at index
replaceWord(index) ==
  /\ index \in ClickableIndices
  /\ ~(index < 0 \/ index >= Len(currentSequence))
  /\ LET clicked == currentSequence[index + 1]
         used == {currentSequence[i] : i \in 1..index}
         uncovered == allLetters \ CoveredBefore(currentSequence, index)
         startingLast == StartingLast(currentSequence, index)
     IN /\ discardedWords' = discardedWords \cup {clicked}
        /\ \E rec \in {BuildRecord(currentCandidates, allLetters, discardedWords',
                                   startingLast, {uncovered}, {used \cup {clicked}})} :
             /\ lastBuild' = rec
             /\ currentSequence' = SequenceAfterReplace(currentSequence, index, rec.result)
             /\ output' = IF Len(rec.result) = 0 THEN output
                          ELSE renderSequence(currentSequence')
             /\ lastOp' = Op("replace", index,
                             IF Len(rec.result) = 0 THEN "NoAlternativeFound" ELSE "none")
  /\ resetCleared' = FALSE
  /\ UNCHANGED <<providerText, dictionaryLoaded, dictionary, currentGroups,
                 currentCharGroupMap, currentCandidates, allLetters, pending,
                 fetchCount, overlap, lastSubmit>>

Next ==
  \/ \E input \in GroupInputs : SubmitInvalid(input)
  \/ \E input \in GroupInputs : SubmitLoaded(input)
  \/ \E input \in GroupInputs : SubmitFetch(input)
  \/ \E k \in 1..MaxPending : LoadFail(k)
  \/ \E k \in 1..MaxPending : TextLoaded(k)
  \/ resetAll
  \/ \E index \in 0..(Len(currentSequence) - 1) : replaceWord(index)

Spec == Init /\ [][Next]_vars

(***************************************************************************)
(* The Chain Builder on its own: one generateSequenceFromState call with   *)
(* arguments drawn from bounded sets, against a loaded dictionary and a    *)
(* pool prepared for one of the letter-group inputs.                       *)
(***************************************************************************)
ValidInputs == {input \in GroupInputs : ValidGroups(ReadGroups(input))}

PoolWords(cands) == {cands[i].word : i \in DOMAIN cands}

WordSetsUpTo(words, n) == {B \in SUBSET words : Cardinality(B) <= n}

LettersOf(words) == UNION {Range(w) : w \in words}

\* startingLast: null, or a letter some pool word starts or ends with
StartChoices(cands) ==
  {"null"} \cup {cands[i].first : i \in DOMAIN cands}
           \cup {cands[i].last : i \in DOMAIN cands}

\* uncoveredSet: null, the empty set, or the letters a few pool words leave
UncoveredChoices(cands, letters) ==
  {{}} \cup {{{}}}
       \cup {{letters \ LettersOf(B)} : B \in WordSetsUpTo(PoolWords(cands), MaxArgWords)}

\* usedWordsSet: null, or a few pool words
UsedChoices(cands) ==
  {{}} \cup {{B} : B \in WordSetsUpTo(PoolWords(cands), MaxArgWords)}

\* discardedWords: nothing, or one pool word
DiscardedChoices(cands) == {{}} \cup {{w} : w \in PoolWords(cands)}

InitBuild ==
  /\ providerText \in DictTexts
  /\ dictionaryLoaded = TRUE
  /\ dictionary = ParseDictionary(providerText)
  /\ \E input \in ValidInputs :
       \E prep \in {prepareForGroups(ReadGroups(input), dictionary)} :
         /\ currentGroups = prep.groups
         /\ currentCharGroupMap = prep.charGroupMap
         /\ allLetters = prep.allLetters
         /\ currentCandidates = prep.candidates
  /\ currentSequence = <<>>
  /\ discardedWords \in DiscardedChoices(currentCandidates)
  /\ output = "empty"
  /\ pending = <<>>
  /\ fetchCount = 1
  /\ overlap = FALSE
  /\ lastSubmit = NoSubmit
  /\ resetCleared = FALSE
  /\ lastOp = Op("buildArgs", -1, "none")
  /\ \E startingLast \in StartChoices(currentCandidates) :
       \E uncoveredSet \in UncoveredChoices(currentCandidates, allLetters) :
         \E usedWordsSet \in UsedChoices(currentCandidates) :
           lastBuild = [NoBuild EXCEPT !.startLast = startingLast,
                                       !.uncoveredSet = uncoveredSet,
                                       !.usedWordsSet = usedWordsSet]

\* the call itself, on the arguments drawn
BuildCall ==
  /\ lastOp.kind = "buildArgs"
  /\ lastBuild' = BuildRecord(currentCandidates, allLetters, discardedWords,
                              lastBuild.startLast, lastBuild.uncoveredSet,
                              lastBuild.usedWordsSet)
  /\ lastOp' = Op("build", -1, "none")
  /\ UNCHANGED <<providerText, dictionaryLoaded, dictionary, currentGroups,
                 currentCharGroupMap, currentCandidates, allLetters, currentSequence,
                 discardedWords, output, pending, fetchCount, overlap, lastSubmit,
                 resetCleared>>

NextBuild == BuildCall

SpecBuild == InitBuild /\ [][NextBuild]_vars

(***************************************************************************)
(* The Candidate Filter on its own: prepareForGroups on a dictionary drawn *)
(* from bounded sets (every one-word dictionary over a few characters, two *)
(* words at the length limit, the parsed provider texts, the toy           *)
(* dictionary of the documentation).                                       *)
(***************************************************************************)
FilterChars == {"a", "B", "d", "z"}

ShortWords == UNION {[1..n -> FilterChars] : n \in 1..MaxWordLen}

\* "galgalgalgal" (12 letters) and "galgalgalgalg" (13 letters)
LongWord(n) == [i \in 1..n |-> <<"g", "a", "l">>[((i - 1) % 3) + 1]]

ToyDictionary ==
  << <<"C", "A", "B">>, <<"B", "E", "D">>, <<"D", "I", "G">>, <<"G", "A", "L">>,
     <<"L", "I", "C", "E">> >>

FilterDictionaries ==
  {<<w>> : w \in ShortWords} \cup {<<LongWord(maxLength)>>, <<LongWord(maxLength + 1)>>}
    \cup {ParseDictionary(t) : t \in DictTexts} \cup {ToyDictionary}

InitFilter ==
  /\ providerText \in DictTexts
  /\ dictionaryLoaded = TRUE
  /\ dictionary \in FilterDictionaries
  /\ currentGroups = <<>>
  /\ currentCharGroupMap = <<>>
  /\ currentCandidates = <<>>
  /\ allLetters = {}
  /\ currentSequence = <<>>
  /\ discardedWords = {}
  /\ output = "empty"
  /\ pending \in {<<[groups |-> ReadGroups(input)]>> : input \in ValidInputs}
  /\ fetchCount = 1
  /\ overlap = FALSE
  /\ lastSubmit = NoSubmit
  /\ resetCleared = FALSE
  /\ lastOp = Op("prepareArgs", -1, "none")
  /\ lastBuild = NoBuild

\* prepareForGroups on the groups drawn
PrepareCall ==
  /\ lastOp.kind = "prepareArgs"
  /\ \E prep \in {prepareForGroups(pending[1].groups, dictionary)} :
       /\ currentGroups' = prep.groups
       /\ currentCharGroupMap' = prep.charGroupMap
       /\ allLetters' = prep.allLetters
       /\ currentCandidates' = prep.candidates
  /\ pending' = <<>>
  /\ lastOp' = Op("prepared", -1, "none")
  /\ UNCHANGED <<providerText, dictionaryLoaded, dictionary, currentSequence,
                 discardedWords, output, fetchCount, overlap, lastSubmit,
                 resetCleared, lastBuild>>

NextFilter == PrepareCall

SpecFilter == InitFilter /\ [][NextFilter]_vars

(***************************************************************************)
(* Claims.                                                                 *)
(***************************************************************************)
LastLetter(w) == w[Len(w)]

\* the words passed to the last build as banned (none when null was passed)
PassedBanned == UNION lastBuild.usedWordsSet

\* C1: in the list a build call returns, every word starts with the last
\* letter of the word before it, and when startLast is set the first word
\* starts with startLast.
C1_BuildIsChained ==
  lastBuild.called =>
    LET r == lastBuild.result
    IN /\ \A k \in 1..(Len(r) - 1) : LastLetter(r[k]) = r[k + 1][1]
       /\ (lastBuild.startLast # "null" /\ Len(r) > 0) => r[1][1] = lastBuild.startLast

\* a build with startLast set that returned three words or more
C1_Witness ==
  /\ lastBuild.called
  /\ lastBuild.startLast # "null"
  /\ Len(lastBuild.result) >= 3

\* C2: the list a build call returns holds no word twice, no word of the
\* banned set passed to the call, and no word of DiscardedWords as it was
\* at the call.
C2_NoRepeatNoBanned ==
  lastBuild.called =>
    LET r == lastBuild.result
    IN /\ \A i, j \in DOMAIN r : i # j => r[i] # r[j]
       /\ \A k \in DOMAIN r : r[k] \notin PassedBanned
       /\ \A k \in DOMAIN r : r[k] \notin lastBuild.discarded

\* a build that was passed banned words, ran with another word discarded,
\* and still returned two words or more
C2_Witness ==
  /\ lastBuild.called
  /\ lastBuild.usedWordsSet # {}
  /\ PassedBanned # {}
  /\ lastBuild.discarded # {}
  /\ ~(lastBuild.discarded \subseteq PassedBanned)
  /\ Len(lastBuild.result) >= 2

\* the candidate filter's rule, stated on a raw dictionary word
Accepted(w, map) ==
  LET u == ToUpperCase(w)
  IN /\ Len(w) >= 1
     /\ Len(w) <= 12
     /\ \A k \in 1..Len(u) : u[k] \in DOMAIN map
     /\ \A k \in 1..(Len(u) - 1) : map[u[k]] # map[u[k + 1]]

\* C3: the pool holds exactly the dictionary words of 1 to 12 letters whose
\* letters are all classified and whose adjacent letters are in different
\* groups, one candidate per such dictionary entry, and each candidate
\* records the uppercased word, its first letter, its last letter and the
\* set of its letters.
C3_FilterExact ==
  lastOp.kind = "prepared" =>
    /\ \A i \in DOMAIN dictionary :
         Accepted(dictionary[i], currentCharGroupMap)
           <=> ToUpperCase(dictionary[i]) \in PoolWords(currentCandidates)
    /\ Len(currentCandidates)
         = Cardinality({i \in DOMAIN dictionary :
                          Accepted(dictionary[i], currentCharGroupMap)})
    /\ \A i \in DOMAIN currentCandidates :
         LET c == currentCandidates[i]
         IN /\ \E j \in DOMAIN dictionary : c.word = ToUpperCase(dictionary[j])
            /\ c.first = c.word[1]
            /\ c.last = c.word[Len(c.word)]
            /\ c.coverage = {c.word[k] : k \in 1..Len(c.word)}

\* a three-letter word refused only for its last two letters, next to an
\* accepted one: the filter has run on both kinds
C3_Witness ==
  /\ lastOp.kind = "prepared"
  /\ \E i \in DOMAIN dictionary :
       LET u == ToUpperCase(dictionary[i])
       IN /\ Len(u) = 3
          /\ \A k \in 1..3 : u[k] \in DOMAIN currentCharGroupMap
          /\ currentCharGroupMap[u[1]] # currentCharGroupMap[u[2]]
          /\ currentCharGroupMap[u[2]] = currentCharGroupMap[u[3]]
          /\ currentCandidates = <<>>

FreshKinds == {"submitLoaded", "textLoaded"}

\* C4: a discardAndRegenerate(i) whose regeneration returns a non-empty R
\* leaves the sequence S[0..i-1] followed by R: the words before i stay in
\* place, R follows them, and an old word from position i on is in the new
\* sequence only if R holds it.
C4_PrefixKeptSuffixReplaced ==
  [][(lastOp'.kind = "replace" /\ Len(lastBuild'.result) > 0) =>
       LET i == lastOp'.index
           R == lastBuild'.result
       IN /\ Len(currentSequence') = i + Len(R)
          /\ \A k \in 1..i : currentSequence'[k] = currentSequence[k]
          /\ \A k \in 1..Len(R) : currentSequence'[i + k] = R[k]
          /\ \A k \in (i + 1)..Len(currentSequence) :
               currentSequence[k] \in Range(currentSequence')
                 => currentSequence[k] \in Range(R)]_vars

\* a word after the first was replaced, the words before it kept, in a
\* sequence of three words or more
C4_Witness ==
  /\ lastOp.kind = "replace"
  /\ lastOp.index >= 1
  /\ Len(lastBuild.result) >= 2
  /\ Len(currentSequence) >= 3

\* C5: a discardAndRegenerate whose regeneration returns the empty list
\* signals NoAlternativeFound and leaves the current sequence as it was.
C5_NoAlternativeKeepsSequence ==
  [][(lastOp'.kind = "replace" /\ Len(lastBuild'.result) = 0) =>
       /\ lastOp'.signal = "NoAlternativeFound"
       /\ currentSequence' = currentSequence
       /\ output' = output]_vars

\* the only word of a one-word sequence was discarded, after an earlier
\* discard, and no alternative was left
C5_Witness ==
  /\ lastOp.kind = "replace"
  /\ lastOp.signal = "NoAlternativeFound"
  /\ Len(currentSequence) = 1
  /\ Cardinality(discardedWords) >= 2

\* C6: a word discarded since the last reset is in no list a build of the
\* session returns (lastBuild is the build of the handler that ran last).
C6_DiscardedNeverReturned ==
  \A w \in discardedWords : w \notin Range(lastBuild.result)

\* a fresh generation by submit that found words while a discarded word was
\* in its pool
C6_Witness ==
  /\ lastOp.kind = "submitLoaded"
  /\ Len(lastBuild.result) > 0
  /\ \E w \in discardedWords : w \in PoolWords(currentCandidates)

\* C7: no handler but reset removes a word from DiscardedWords, and a fresh
\* generation starts from the whole DiscardedWords as its banned set.
C7_DiscardedOnlyGrows ==
  [][/\ lastOp'.kind # "reset" => discardedWords \subseteq discardedWords'
     /\ lastOp'.kind \in FreshKinds =>
          /\ lastBuild'.used = discardedWords'
          /\ lastBuild'.startLast = "null"
          /\ lastBuild'.uncovered = allLetters']_vars

\* a fresh generation by submit ran with two words discarded before it
C7_Witness ==
  /\ lastOp.kind = "submitLoaded"
  /\ Cardinality(discardedWords) >= 2
  /\ lastBuild.used = discardedWords

\* C8: reset empties DiscardedWords and the current sequence and leaves the
\* cached dictionary and its loaded flag alone; a submit that follows a
\* reset with the dictionary loaded starts no fetch.
C8_ResetKeepsDictionary ==
  [][/\ lastOp'.kind = "reset" =>
          /\ discardedWords' = {}
          /\ currentSequence' = <<>>
          /\ dictionary' = dictionary
          /\ dictionaryLoaded' = dictionaryLoaded
     /\ (lastOp.kind = "reset" /\ dictionaryLoaded
           /\ lastOp'.kind \in {"submitLoaded", "submitFetch"}) =>
          /\ lastOp'.kind = "submitLoaded"
          /\ fetchCount' = fetchCount
          /\ dictionary' = dictionary]_vars

\* after a reset, with the dictionary loaded and still cached
C8_Witness ==
  /\ lastOp.kind = "reset"
  /\ dictionaryLoaded
  /\ Len(dictionary) > 0
  /\ fetchCount = 1

\* C9 as claimed, on the runs where no two submits overlapped: the provider
\* is invoked at most once.
C9_ProviderInvokedAtMostOnce == ~overlap => fetchCount <= 1

\* C9, amended: once the word list is loaded, no handler starts a fetch and
\* submit, discardAndRegenerate and reset leave the cached list in place.
C9_NoFetchOnceLoaded ==
  [][dictionaryLoaded =>
       /\ fetchCount' = fetchCount
       /\ dictionaryLoaded'
       /\ lastOp'.kind # "textLoaded" => dictionary' = dictionary]_vars

\* a submit served from the cache, in a run whose first fetch failed and
\* whose second loaded the list
C9_Witness ==
  /\ lastOp.kind = "submitLoaded"
  /\ ~overlap
  /\ fetchCount = 2

\* C10: at most one dictionary fetch is in flight.
C10_OneFetchInFlight == Len(pending) <= 1


(***************************************************************************)
(* C11: a failed fetch aborts the submit with DictionaryLoadError and      *)
(* leaves the loaded flag false; the cached dictionary, the classification,*)
(* the candidate pool, AllLetters, the current sequence and DiscardedWords *)
(* are unchanged and the provider is not invoked again by the failure       *)
(* itself; a submit issued right after the failure invokes the provider.   *)
(***************************************************************************)
C11_FailedFetchLeavesNotLoaded ==
  [][/\ lastOp'.kind = "loadFail" =>
          /\ lastOp'.signal = "DictionaryLoadError"
          /\ dictionaryLoaded' = FALSE
          /\ UNCHANGED <<dictionary, currentCharGroupMap, currentCandidates,
                         allLetters, currentSequence, discardedWords, fetchCount>>
     /\ (lastOp.kind = "loadFail" /\ lastOp'.kind \in {"submitLoaded", "submitFetch"}) =>
          /\ lastOp'.kind = "submitFetch"
          /\ fetchCount' = fetchCount + 1]_vars


(***************************************************************************)
(* C12: the classification maps exactly the letters that occur in some     *)
(* group, each to one index in 0..3: the index of the lowest-indexed group *)
(* the letter occurs in (its own group when the groups are disjoint).      *)
(***************************************************************************)
GroupsWith(ch) == {g \in DOMAIN currentGroups : ch \in Range(currentGroups[g])}

LowestGroup(ch) == CHOOSE g \in GroupsWith(ch) : \A h \in GroupsWith(ch) : g <= h

C12_ClassifyLowestGroup ==
  lastOp.kind = "prepared" =>
    /\ DOMAIN currentCharGroupMap = UNION {Range(currentGroups[g]) : g \in DOMAIN currentGroups}
    /\ \A ch \in DOMAIN currentCharGroupMap :
         /\ currentCharGroupMap[ch] \in 0..3
         /\ currentCharGroupMap[ch] = LowestGroup(ch) - 1

\* reached: a classification of groups where one letter occurs in two groups
\* and got the lower index, next to a letter of a single later group
C12_Witness ==
  /\ lastOp.kind = "prepared"
  /\ \E ch \in DOMAIN currentCharGroupMap :
       /\ Cardinality(GroupsWith(ch)) = 2
       /\ currentCharGroupMap[ch] = 0
  /\ \E ch \in DOMAIN currentCharGroupMap :
       /\ Cardinality(GroupsWith(ch)) = 1
       /\ currentCharGroupMap[ch] = 3


(***************************************************************************)
(* C13: the candidate pool is sorted in every state, so after every submit *)
(* and through every discardAndRegenerate and reset: of two candidates the *)
(* earlier one has the larger coverage, or the same coverage size and a    *)
(* word at least as long.                                                  *)
(***************************************************************************)
C13_PoolSorted ==
  \A i, j \in DOMAIN currentCandidates :
    i < j =>
      LET a == currentCandidates[i]
          b == currentCandidates[j]
      IN \/ Cardinality(a.coverage) > Cardinality(b.coverage)
         \/ /\ Cardinality(a.coverage) = Cardinality(b.coverage)
            /\ Len(a.word) >= Len(b.word)

\* reached: after a discardAndRegenerate, a pool where the sort moved a word
\* forward over a shorter word of the same coverage size and over words of
\* smaller coverage that stand before it in the dictionary
C13_Witness ==
  /\ lastOp.kind = "replace"
  /\ \E i, j \in DOMAIN currentCandidates :
       /\ i < j
       /\ Cardinality(currentCandidates[i].coverage) = Cardinality(currentCandidates[j].coverage)
       /\ Len(currentCandidates[i].word) > Len(currentCandidates[j].word)
       /\ \E m, n \in DOMAIN dictionary :
            /\ m < n
            /\ ToUpperCase(dictionary[m]) = currentCandidates[j].word
            /\ ToUpperCase(dictionary[n]) = currentCandidates[i].word
  /\ \E i, j \in DOMAIN currentCandidates :
       Cardinality(currentCandidates[i].coverage) > Cardinality(currentCandidates[j].coverage) + 1


(***************************************************************************)
(* C14: fresh generation finds the shortest sequence: when the sequence it *)
(* returns covers all letters, no chained sequence of pool words (outside  *)
(* DiscardedWords) with fewer words covers all letters.                    *)
(***************************************************************************)
LettersCovered(seq) == UNION {Range(seq[k]) : k \in DOMAIN seq}

CoversAll(seq) == allLetters \subseteq LettersCovered(seq)

Chained(seq) == \A k \in 1..(Len(seq) - 1) : LastLetter(seq[k]) = seq[k + 1][1]

\* the pool words a generation may use
OpenWords == {currentCandidates[i].word : i \in DOMAIN currentCandidates} \ discardedWords

\* some chained sequence of fewer than n open words covers all letters
ShorterCover(n) ==
  \E m \in 1..(n - 1) : \E seq \in [1..m -> OpenWords] : Chained(seq) /\ CoversAll(seq)

ToyCase ==
  /\ lastOp.kind = "prepared"
  /\ currentGroups = ReadGroups(InputABC)
  /\ dictionary = ToyDictionary

PoolWordSeq == [i \in DOMAIN currentCandidates |-> currentCandidates[i].word]

C15_AllFiveInPool ==
  ToyCase => Range(ToyDictionary) \subseteq Range(PoolWordSeq)

\* C15 as amended: of the five words only LICE and GAL pass the filter and
\* make up the pool, in this order; CAB, BED and DIG each hold two
\* neighbouring letters of one group and are rejected.
C15_OnlyLiceAndGal ==
  ToyCase => PoolWordSeq = << <<"L", "I", "C", "E">>, <<"G", "A", "L">> >>

\* reached: the filter ran on the five words and left two of them
C15_Witness ==
  /\ ToyCase
  /\ Len(currentCandidates) = 2
  /\ \A w \in {<<"C", "A", "B">>, <<"B", "E", "D">>, <<"D", "I", "G">>} :
       /\ w \in Range(dictionary)
       /\ w \notin Range(PoolWordSeq)
       /\ AdjacentSameGroup([i \in DOMAIN w |-> currentCharGroupMap[w[i]]])


(***************************************************************************)
(* C16: every build call comes to an end after appending at most as many   *)
(* words as there are distinct unbanned words in the pool, and when it     *)
(* stops either no letter is left uncovered or no unbanned candidate       *)
(* starts with the current last letter.                                    *)
(***************************************************************************)
\* what the loop variables hold when the last build call returns
FinalUncovered == lastBuild.uncovered \ LettersCovered(lastBuild.result)

FinalUsed == lastBuild.used \cup Range(lastBuild.result)

FinalLast ==
  IF lastBuild.result = <<>> THEN lastBuild.startLast
  ELSE LastLetter(lastBuild.result[Len(lastBuild.result)])

C16_BuildStopsWithinPool ==
  lastBuild.called =>
    /\ Len(lastBuild.result) <= Cardinality(PoolWords(currentCandidates) \ lastBuild.used)
    /\ \/ FinalUncovered = {}
       \/ ~\E i \in DOMAIN currentCandidates :
              /\ currentCandidates[i].word \notin FinalUsed
              /\ (FinalLast = "null" \/ currentCandidates[i].word[1] = FinalLast)

\* reached: a build that appended two words or more and stopped with
\* letters uncovered and unbanned words left, none of them chaining on
C16_Witness ==
  /\ lastBuild.called
  /\ Len(lastBuild.result) >= 2
  /\ FinalUncovered # {}
  /\ PoolWords(currentCandidates) \ FinalUsed # {}


(***************************************************************************)
(* C17: at every step of a build the appended word is the earliest         *)
(* candidate in pool order, among the usable ones (not banned, chaining on *)
(* the current last letter), whose number of still uncovered coverage      *)
(* letters is maximal; when that maximum is 0 it is the first usable       *)
(* candidate in pool order.                                                *)
(***************************************************************************)
\* the loop variables before the k-th word of the last build was appended
StepWordsBefore(k) == SubSeq(lastBuild.result, 1, k - 1)

StepUncovered(k) == lastBuild.uncovered \ LettersCovered(StepWordsBefore(k))

StepUsed(k) == lastBuild.used \cup Range(StepWordsBefore(k))

StepLast(k) ==
  IF k = 1 THEN lastBuild.startLast ELSE LastLetter(lastBuild.result[k - 1])

\* pool positions usable at step k
StepUsable(k) ==
  {i \in DOMAIN currentCandidates :
     /\ currentCandidates[i].word \notin StepUsed(k)
     /\ (StepLast(k) = "null" \/ currentCandidates[i].word[1] = StepLast(k))}

StepGain(k, i) == Cardinality(Range(currentCandidates[i].word) \cap StepUncovered(k))

\* pool positions at step k that add as many letters as any usable one
StepBest(k) ==
  {i \in StepUsable(k) : \A j \in StepUsable(k) : StepGain(k, j) <= StepGain(k, i)}

C17_EarliestBestCandidate ==
  lastBuild.called =>
    \A k \in DOMAIN lastBuild.result :
      /\ StepBest(k) # {}
      /\ \E i \in StepBest(k) :
           /\ \A j \in StepBest(k) : i <= j
           /\ lastBuild.result[k] = currentCandidates[i].word

\* reached: a build with a step where two usable candidates tie on a
\* positive gain, and a step where two or more candidates are usable and
\* none adds a letter
C17_Witness ==
  /\ lastBuild.called
  /\ \E k \in DOMAIN lastBuild.result :
       /\ Cardinality(StepBest(k)) >= 2
       /\ \E i \in StepBest(k) : StepGain(k, i) > 0
  /\ \E k \in DOMAIN lastBuild.result :
       /\ Cardinality(StepUsable(k)) >= 2
       /\ \A i \in StepUsable(k) : StepGain(k, i) = 0


(***************************************************************************)
(* C18: in every reachable state the current sequence is chained end to    *)
(* end: each word starts with the last letter of the word before it, also  *)
(* where a kept prefix meets a regenerated suffix.                         *)
(***************************************************************************)
C18_SequenceChained == Chained(currentSequence)

\* reached: a discardAndRegenerate at a position after the first that kept
\* a prefix and appended a regenerated suffix of two words or more
C18_Witness ==
  /\ lastOp.kind = "replace"
  /\ lastOp.index >= 1
  /\ Len(lastBuild.result) >= 2
  /\ Len(currentSequence) = lastOp.index + Len(lastBuild.result)
  /\ currentSequence[lastOp.index + 1] = lastBuild.result[1]


(***************************************************************************)
(* C19: discardAndRegenerate and reset leave the classification,           *)
(* AllLetters and the candidate pool (content and order) unchanged; only a *)
(* submit recomputes them, once, from its own groups; a build call changes *)
(* neither the pool, nor DiscardedWords, nor the uncovered and banned sets *)
(* passed to it.                                                           *)
(***************************************************************************)
PreparedState == <<currentCharGroupMap, allLetters, currentCandidates>>

C19_OnlySubmitRecomputes ==
  [][/\ lastOp'.kind \in {"replace", "reset"} => PreparedState' = PreparedState
     /\ PreparedState' # PreparedState => lastOp'.kind \in FreshKinds
     /\ lastOp'.kind \in FreshKinds =>
          \E prep \in {prepareForGroups(currentGroups', dictionary')} :
            /\ PreparedState' = <<prep.charGroupMap, prep.allLetters, prep.candidates>>
            /\ discardedWords' = discardedWords
     /\ lastOp'.kind = "replace" =>
          discardedWords' = discardedWords \cup {currentSequence[lastOp'.index + 1]}
     /\ lastBuild'.called =>
          /\ lastBuild'.uncoveredSetAfter = lastBuild'.uncoveredSet
          /\ lastBuild'.usedWordsSetAfter = lastBuild'.usedWordsSet]_vars

\* reached: a discardAndRegenerate whose build was passed an uncovered set
\* and two banned words, appended words, and ran against a pool of several
\* candidates prepared by an earlier submit
C19_Witness ==
  /\ lastOp.kind = "replace"
  /\ lastBuild.called
  /\ Len(lastBuild.result) >= 1
  /\ lastBuild.uncoveredSet # {}
  /\ \E B \in lastBuild.usedWordsSet : Cardinality(B) >= 2
  /\ Len(currentCandidates) >= 3
  /\ allLetters # {}


(***************************************************************************)
(* C20: when several submits overlapped, the session state once all of     *)
(* them have completed (classification, AllLetters, pool, sequence) is     *)
(* that of the submit issued last, whatever the order in which the fetches *)
(* completed.                                                              *)
(***************************************************************************)
C20_LatestSubmitWins ==
  (overlap /\ pending = <<>> /\ lastSubmit.status = "done") =>
    \E prep \in {prepareForGroups(lastSubmit.groups, dictionary)} :
      /\ currentGroups = lastSubmit.groups
      /\ PreparedState = <<prep.charGroupMap, prep.allLetters, prep.candidates>>
      /\ lastOp.kind \in FreshKinds =>
           currentSequence =
             generateSequenceFromState(prep.candidates, prep.allLetters,
                                       discardedWords, "null", {}, {})


(***************************************************************************)
(* C21: in every reachable state no word of the current sequence is in     *)
(* DiscardedWords, the state after a discardAndRegenerate that ended with  *)
(* NoAlternativeFound included.                                            *)
(***************************************************************************)
\* the words shown in the sequence although discarded
DiscardedInSequence == Range(currentSequence) \cap discardedWords

C21_NoSequenceWordDiscarded == DiscardedInSequence = {}

\* C21 as amended: a word of the sequence gets into DiscardedWords only by a
\* discardAndRegenerate on it that ends with NoAlternativeFound (the word is
\* discarded and the sequence kept); a fresh generation and a regenerated
\* suffix hold no discarded word.
C21_DiscardedOnlyByNoAlternative ==
  [][/\ DiscardedInSequence' \subseteq
          DiscardedInSequence \cup
            (IF lastOp'.kind = "replace" /\ lastOp'.signal = "NoAlternativeFound"
             THEN {currentSequence[lastOp'.index + 1]} ELSE {})
     /\ lastOp'.kind \in FreshKinds => DiscardedInSequence' = {}
     /\ (lastOp'.kind = "replace" /\ lastOp'.signal = "none") =>
          \A k \in (lastOp'.index + 1)..Len(currentSequence') :
            currentSequence'[k] \notin discardedWords']_vars

\* reached: a discardAndRegenerate that ended with NoAlternativeFound in a
\* sequence of two words or more; the clicked word is still shown and is in
\* DiscardedWords
C21_Witness ==
  /\ lastOp.kind = "replace"
  /\ lastOp.signal = "NoAlternativeFound"
  /\ Len(currentSequence) >= 2
  /\ currentSequence[lastOp.index + 1] \in DiscardedInSequence


(***************************************************************************)
(* C22: in every reachable state the current sequence holds no word twice; *)
(* a regenerated suffix never repeats a word of the kept prefix, whose     *)
(* words are in the banned set of the regeneration.                        *)
(***************************************************************************)
C22_NoWordTwice ==
  /\ \A i, j \in DOMAIN currentSequence : i # j => currentSequence[i] # currentSequence[j]
  /\ (lastOp.kind = "replace" /\ lastBuild.called) =>
       \A i \in 1..lastOp.index : currentSequence[i] \in lastBuild.used

\* reached: a discardAndRegenerate that kept a prefix and appended a suffix
\* in which some word ends with the first letter of a prefix word, so that
\* the prefix word would chain on if it were not banned
C22_Witness ==
  /\ lastOp.kind = "replace"
  /\ lastOp.index >= 1
  /\ Len(lastBuild.result) >= 1
  /\ \E i \in 1..lastOp.index :
       \E k \in (lastOp.index + 1)..Len(currentSequence) :
         currentSequence[i][1] = LastLetter(currentSequence[k])


(***************************************************************************)
(* C23: in every reachable state no proper prefix of the current sequence  *)
(* covers AllLetters: the words before any position of the sequence leave  *)
(* a letter uncovered, so the builder appends nothing after full coverage  *)
(* and every suffix regeneration starts from a non-empty uncovered set.    *)
(***************************************************************************)
C23_NoProperPrefixCovers ==
  /\ \A k \in DOMAIN currentSequence : ~CoversAll(SubSeq(currentSequence, 1, k - 1))
  /\ (lastOp.kind = "replace" /\ lastBuild.called) => lastBuild.uncovered # {}

\* reached: a discardAndRegenerate left a sequence of three words or more
\* that covers all letters with its last word, while an open pool word
\* would chain on after it
C23_Witness ==
  /\ lastOp.kind = "replace"
  /\ Len(lastBuild.result) >= 1
  /\ Len(currentSequence) >= 3
  /\ CoversAll(currentSequence)
  /\ \E w \in OpenWords \ Range(currentSequence) :
       w[1] = LastLetter(currentSequence[Len(currentSequence)])


(***************************************************************************)
(* C24: generation is a function of dictionary, groups and DiscardedWords: *)
(* whatever happened before, the sequence a submit leaves is the one       *)
(* computed from these three alone; a submit after a reset runs with an    *)
(* empty DiscardedWords and so yields the sequence of a first submit of    *)
(* the same groups, whatever was discarded before the reset.               *)
(***************************************************************************)
\* the sequence of a fresh generation for a dictionary, groups and a set of
\* discarded words, computed from nothing else
FreshSequence(dict, groups, discarded) ==
  LET prep == prepareForGroups(groups, dict)
  IN generateSequenceFromState(prep.candidates, prep.allLetters, discarded, "null", {}, {})

=============================================================================
